---- MODULE Spec2Model ----
(***************************************************************************)
(* Model of gensim.corpora.indexedcorpus.IndexedCorpus: building an offset *)
(* index while a corpus is saved (saveIndexedCorpus), loading it when a    *)
(* corpus object is constructed (__init__), and random access to a         *)
(* document by its number (__getitem__).                                   *)
(*                                                                         *)
(* The file system is a map from paths to files.  A file is a sequence of  *)
(* bytes.  The serializer (saveCorpus / docbyoffset) and the pickling      *)
(* helpers (utils.pickle / utils.unpickle) are collaborators that live     *)
(* outside indexedcorpus.py; they are modelled as concrete encoders and    *)
(* decoders so that a round trip is something that can fail.               *)
(***************************************************************************)
EXTENDS Integers, Sequences, FiniteSets, TLC

VARIABLES
    disk,     \* path -> file: what is stored on disk
    handle,   \* the IndexedCorpus object, once constructed (self.index, and the subclass's fname)
    last,     \* record of the most recent call: arguments, collaborator calls made, outcome
    ghost     \* history: the successful save that construction directly followed, while the
              \* disk is as that save left it

vars == <<disk, handle, last, ghost>>

(***************************************************************************)
(* Bounds of the model.                                                    *)
(***************************************************************************)
MaxLen == 2        \* a corpus holds at most MaxLen documents

\* The documents of the docstring's example corpus, [[(1, 0.5)], [(0, 1.0), (1, 2.0)]]:
\* a document is the sequence of its term ids.
Docs == {<<1>>, <<0, 1>>}

RECURSIVE SeqsUpTo(_, _)
SeqsUpTo(S, n) ==
    IF n = 0 THEN {<<>>}
    ELSE LET shorter == SeqsUpTo(S, n - 1)
         IN  shorter \cup {Append(s, x) : s \in {t \in shorter : Len(t) = n - 1}, x \in S}

Corpora == SeqsUpTo(Docs, MaxLen)

DocNos == (0 - (MaxLen + 1))..(MaxLen + 1)

(***************************************************************************)
(* Paths.  One storage path; the index path argument is either not given   *)
(* (Python's None) or an explicit path.  Index files and storage files     *)
(* are kept distinct files.  Spec uses the index path P.index, given       *)
(* explicitly or by default; SpecPaths adds a second index path X.         *)
(***************************************************************************)
NoIndexFname == "<None>"
StoragePaths == {"P"}
ExplicitIndexPaths == {"P.index", "X"}
IndexFnameArgs == {NoIndexFname} \cup ExplicitIndexPaths
SameIndexFnameArgs == {NoIndexFname, "P.index"}
IndexPaths == {p \o ".index" : p \in StoragePaths} \cup ExplicitIndexPaths
Paths == StoragePaths \cup IndexPaths

Serializers == {"indexing", "plain"}

(***************************************************************************)
(* Python values and files.                                                *)
(***************************************************************************)
PyNone == [type |-> "NoneType"]
PyList(s) == [type |-> "list", items |-> s]

NoFile == [exists |-> FALSE]
File(bytes) == [exists |-> TRUE, bytes |-> bytes]

(***************************************************************************)
(* The serializer.  A document is stored as one byte per term (the term    *)
(* id plus one) followed by a terminating byte 0; a corpus is the          *)
(* concatenation of its documents.                                         *)
(***************************************************************************)
EncodeDoc(doc) == [i \in 1..Len(doc) |-> doc[i] + 1] \o <<0>>

RECURSIVE EncodeCorpus(_)
EncodeCorpus(corpus) ==
    IF corpus = <<>> THEN <<>>
    ELSE EncodeDoc(Head(corpus)) \o EncodeCorpus(Tail(corpus))

\* byte offset (0-based) at which each document starts, writing from position `at`
RECURSIVE OffsetsFrom(_, _)
OffsetsFrom(corpus, at) ==
    IF corpus = <<>> THEN <<>>
    ELSE <<at>> \o OffsetsFrom(Tail(corpus), at + Len(EncodeDoc(Head(corpus))))

\* serializer.saveCorpus(fname, corpus): writes the storage file; returns the
\* offsets, or None when the serializer does not report them
saveCorpus(serializer, d, fname, corpus) ==
    [disk |-> [d EXCEPT ![fname] = File(EncodeCorpus(corpus))],
     ret  |-> IF serializer = "indexing" THEN PyList(OffsetsFrom(corpus, 0)) ELSE PyNone]

\* the bytes from 1-based position pos up to the terminator, decoded;
\* fails when the file ends before a terminator is found
RECURSIVE ReadRecord(_, _)
ReadRecord(bytes, pos) ==
    IF pos > Len(bytes) THEN [ok |-> FALSE]
    ELSE IF bytes[pos] = 0 THEN [ok |-> TRUE, terms |-> <<>>]
    ELSE LET rest == ReadRecord(bytes, pos + 1)
         IN  IF rest.ok THEN [ok |-> TRUE, terms |-> <<bytes[pos] - 1>> \o rest.terms]
             ELSE [ok |-> FALSE]

\* self.docbyoffset(offset): seek to offset in the storage file and decode one document
docbyoffset(file, offset) ==
    IF ~file.exists \/ offset < 0 THEN [ok |-> FALSE, err |-> "IOError"]
    ELSE LET r == ReadRecord(file.bytes, offset + 1)
         IN  IF r.ok THEN [ok |-> TRUE, doc |-> r.terms]
             ELSE [ok |-> FALSE, err |-> "ValueError"]

(***************************************************************************)
(* utils.pickle / utils.unpickle.  None is the single byte 78; a list is   *)
(* the byte 93, its length, and its items.                                 *)
(***************************************************************************)
PickleBytes(obj) ==
    IF obj = PyNone THEN <<78>>
    ELSE <<93, Len(obj.items)>> \o obj.items

pickle(d, obj, fname) == [d EXCEPT ![fname] = File(PickleBytes(obj))]

unpickle(file) ==
    IF ~file.exists THEN [ok |-> FALSE, err |-> "IOError"]
    ELSE LET b == file.bytes
         IN  IF Len(b) = 0 THEN [ok |-> FALSE, err |-> "EOFError"]
             ELSE IF b[1] = 78 THEN [ok |-> TRUE, val |-> PyNone]
             ELSE IF b[1] = 93 THEN
                    IF Len(b) < 2 \/ Len(b) < b[2] + 2
                    THEN [ok |-> FALSE, err |-> "EOFError"]
                    ELSE [ok |-> TRUE, val |-> PyList(SubSeq(b, 3, b[2] + 2))]
             ELSE [ok |-> FALSE, err |-> "UnpicklingError"]

\* contents an index file can be left with when it is damaged outside the program:
\* empty, or an unknown opcode
DamagedBytes == {<<>>, <<63>>}

(***************************************************************************)
(* Index path resolution (the two copies in the source).                   *)
(***************************************************************************)
\* __init__:  if index_fname is None: index_fname = fname + '.index'
InitIndexFname(fname, index_fname) ==
    IF index_fname = NoIndexFname THEN fname \o ".index" ELSE index_fname

\* variant: the explicit index path is ignored
SaveIndexFname_ignoresArg(fname, index_fname) == fname \o ".index"

\* saveIndexedCorpus:  if index_fname is None: index_fname = fname + '.index'
SaveIndexFname(fname, index_fname) ==
    IF index_fname = NoIndexFname THEN fname \o ".index" ELSE index_fname

\* variant: a position past the end is answered with the last item
ListGetItem_clamped(items, docno) ==
    LET n == Len(items)
    IN  IF 0 <= docno /\ docno < n THEN [ok |-> TRUE, val |-> items[docno + 1]]
        ELSE IF 0 - n <= docno /\ docno < 0 THEN [ok |-> TRUE, val |-> items[n + docno + 1]]
        ELSE IF n > 0 /\ docno >= n THEN [ok |-> TRUE, val |-> items[n]]
        ELSE [ok |-> FALSE, err |-> "IndexError"]

(***************************************************************************)
(* self.index[docno] on a Python list: positions 0..n-1, negative          *)
(* positions -n..-1 count from the end, anything else is an IndexError.    *)
(***************************************************************************)
ListGetItem(items, docno) ==
    LET n == Len(items)
    IN  IF 0 <= docno /\ docno < n THEN [ok |-> TRUE, val |-> items[docno + 1]]
        ELSE IF 0 - n <= docno /\ docno < 0 THEN [ok |-> TRUE, val |-> items[n + docno + 1]]
        ELSE [ok |-> FALSE, err |-> "IndexError"]

NoHandle == [open |-> FALSE]
NoGhost == [fresh |-> FALSE]

Init ==
    /\ disk = [p \in Paths |-> NoFile]
    /\ handle = NoHandle
    /\ last = [op |-> "start"]
    /\ ghost = NoGhost

\* variant: only a missing or unreadable file is caught (except IOError)
IndexedCorpusInit_exceptIOError(fname, index_fname) ==
    LET path == InitIndexFname(fname, index_fname)
        r == unpickle(disk[path])
        raised == ~r.ok /\ r.err # "IOError"
    IN  /\ handle' = IF raised THEN NoHandle
                      ELSE [open |-> TRUE, fname |-> fname,
                            index |-> IF r.ok THEN r.val ELSE PyNone]
        /\ last' = [op |-> "init", fname |-> fname, index_fname |-> index_fname,
                    read |-> path, load |-> IF r.ok THEN "ok" ELSE r.err,
                    outcome |-> IF raised THEN r.err ELSE "return"]
        /\ ghost' = IF last.op = "save" /\ last.outcome = "return" /\ ~raised
                     THEN [fresh |-> TRUE, save |-> last, read |-> path]
                     ELSE NoGhost
        /\ UNCHANGED disk

(***************************************************************************)
(* IndexedCorpus.__init__(fname, index_fname): load the index; any         *)
(* exception of the load leaves self.index = None.                         *)
(***************************************************************************)
IndexedCorpusInit(fname, index_fname) ==
    LET path == InitIndexFname(fname, index_fname)
        r == unpickle(disk[path])
    IN  /\ handle' = [open |-> TRUE, fname |-> fname,
                      index |-> IF r.ok THEN r.val ELSE PyNone]
        /\ last' = [op |-> "init", fname |-> fname, index_fname |-> index_fname,
                    read |-> path, load |-> IF r.ok THEN "ok" ELSE r.err,
                    outcome |-> "return"]
        /\ ghost' = IF last.op = "save" /\ last.outcome = "return"
                     THEN [fresh |-> TRUE, save |-> last, read |-> path]
                     ELSE NoGhost
        /\ UNCHANGED disk

\* variant: an index file that already exists is not written again
saveIndexedCorpus_keepsExisting(serializer, fname, corpus, index_fname) ==
    LET path == SaveIndexFname(fname, index_fname)
        s == saveCorpus(serializer, disk, fname, corpus)
        offsets == s.ret
        call == [op |-> "save", serializer |-> serializer, fname |-> fname,
                 corpus |-> corpus, index_fname |-> index_fname, offsets |-> offsets,
                 replaced |-> disk[path].exists]
    IN  /\ IF offsets = PyNone
           THEN /\ disk' = s.disk
                /\ last' = call @@ [outcome |-> "NotImplementedError",
                                    calls |-> <<[fn |-> "saveCorpus", path |-> fname]>>]
           ELSE /\ disk' = IF disk[path].exists THEN s.disk ELSE pickle(s.disk, offsets, path)
                /\ last' = call @@ [outcome |-> "return",
                                    calls |-> <<[fn |-> "saveCorpus", path |-> fname],
                                                [fn |-> "pickle", path |-> path]>>]
        /\ ghost' = NoGhost
        /\ UNCHANGED handle

\* variant: the test is "if not offsets", which an empty offset list meets too
saveIndexedCorpus_falsy(serializer, fname, corpus, index_fname) ==
    LET path == SaveIndexFname(fname, index_fname)
        s == saveCorpus(serializer, disk, fname, corpus)
        offsets == s.ret
        call == [op |-> "save", serializer |-> serializer, fname |-> fname,
                 corpus |-> corpus, index_fname |-> index_fname, offsets |-> offsets,
                 replaced |-> disk[path].exists]
    IN  /\ IF offsets = PyNone \/ offsets = PyList(<<>>)
           THEN /\ disk' = s.disk
                /\ last' = call @@ [outcome |-> "NotImplementedError",
                                    calls |-> <<[fn |-> "saveCorpus", path |-> fname]>>]
           ELSE /\ disk' = pickle(s.disk, offsets, path)
                /\ last' = call @@ [outcome |-> "return",
                                    calls |-> <<[fn |-> "saveCorpus", path |-> fname],
                                                [fn |-> "pickle", path |-> path]>>]
        /\ ghost' = NoGhost
        /\ UNCHANGED handle

\* variant: the offsets are pickled before they are tested for None
saveIndexedCorpus_pickleFirst(serializer, fname, corpus, index_fname) ==
    LET path == SaveIndexFname(fname, index_fname)
        s == saveCorpus(serializer, disk, fname, corpus)
        offsets == s.ret
        call == [op |-> "save", serializer |-> serializer, fname |-> fname,
                 corpus |-> corpus, index_fname |-> index_fname, offsets |-> offsets,
                 replaced |-> disk[path].exists]
    IN  /\ IF offsets = PyNone
           THEN /\ disk' = pickle(s.disk, offsets, path)
                /\ last' = call @@ [outcome |-> "NotImplementedError",
                                    calls |-> <<[fn |-> "saveCorpus", path |-> fname],
                                                [fn |-> "pickle", path |-> path]>>]
           ELSE /\ disk' = pickle(s.disk, offsets, path)
                /\ last' = call @@ [outcome |-> "return",
                                    calls |-> <<[fn |-> "saveCorpus", path |-> fname],
                                                [fn |-> "pickle", path |-> path]>>]
        /\ ghost' = NoGhost
        /\ UNCHANGED handle

(***************************************************************************)
(* IndexedCorpus.saveIndexedCorpus(serializer, fname, corpus, index_fname) *)
(***************************************************************************)
saveIndexedCorpus(serializer, fname, corpus, index_fname) ==
    LET path == SaveIndexFname(fname, index_fname)
        s == saveCorpus(serializer, disk, fname, corpus)
        offsets == s.ret
        call == [op |-> "save", serializer |-> serializer, fname |-> fname,
                 corpus |-> corpus, index_fname |-> index_fname, offsets |-> offsets,
                 replaced |-> disk[path].exists]
    IN  /\ IF offsets = PyNone
           THEN /\ disk' = s.disk
                /\ last' = call @@ [outcome |-> "NotImplementedError",
                                    calls |-> <<[fn |-> "saveCorpus", path |-> fname]>>]
           ELSE /\ disk' = pickle(s.disk, offsets, path)
                /\ last' = call @@ [outcome |-> "return",
                                    calls |-> <<[fn |-> "saveCorpus", path |-> fname],
                                                [fn |-> "pickle", path |-> path]>>]
        /\ ghost' = NoGhost
        /\ UNCHANGED handle

\* variant: the document number itself is passed on as the offset
getitem_docnoAsOffset(docno) ==
    /\ handle.open
    /\ IF handle.index = PyNone
       THEN last' = [op |-> "getitem", docno |-> docno, calls |-> <<>>,
                     outcome |-> "RuntimeError"]
       ELSE LET o == ListGetItem(handle.index.items, docno)
            IN  IF ~o.ok
                THEN last' = [op |-> "getitem", docno |-> docno, calls |-> <<>>,
                              outcome |-> o.err]
                ELSE LET r == docbyoffset(disk[handle.fname], docno)
                         calls == <<[fn |-> "docbyoffset", offset |-> docno]>>
                     IN  IF r.ok
                         THEN last' = [op |-> "getitem", docno |-> docno, calls |-> calls,
                                       outcome |-> "return", value |-> r.doc]
                         ELSE last' = [op |-> "getitem", docno |-> docno, calls |-> calls,
                                       outcome |-> r.err]
    /\ UNCHANGED <<disk, handle, ghost>>

\* variant: no test for a missing index, so None is subscripted
getitem_noNoneCheck(docno) ==
    /\ handle.open
    /\ IF handle.index = PyNone
       THEN last' = [op |-> "getitem", docno |-> docno, calls |-> <<>>,
                     outcome |-> "TypeError"]
       ELSE LET o == ListGetItem(handle.index.items, docno)
            IN  IF ~o.ok
                THEN last' = [op |-> "getitem", docno |-> docno, calls |-> <<>>,
                              outcome |-> o.err]
                ELSE LET r == docbyoffset(disk[handle.fname], o.val)
                         calls == <<[fn |-> "docbyoffset", offset |-> o.val]>>
                     IN  IF r.ok
                         THEN last' = [op |-> "getitem", docno |-> docno, calls |-> calls,
                                       outcome |-> "return", value |-> r.doc]
                         ELSE last' = [op |-> "getitem", docno |-> docno, calls |-> calls,
                                       outcome |-> r.err]
    /\ UNCHANGED <<disk, handle, ghost>>

\* variant: a lookup that fails drops the index
getitem_invalidates(docno) ==
    /\ handle.open
    /\ IF handle.index = PyNone
       THEN /\ last' = [op |-> "getitem", docno |-> docno, calls |-> <<>>,
                        outcome |-> "RuntimeError"]
            /\ handle' = handle
       ELSE LET o == ListGetItem(handle.index.items, docno)
            IN  IF ~o.ok
                THEN /\ last' = [op |-> "getitem", docno |-> docno, calls |-> <<>>,
                                 outcome |-> o.err]
                     /\ handle' = [handle EXCEPT !.index = PyNone]
                ELSE LET r == docbyoffset(disk[handle.fname], o.val)
                         calls == <<[fn |-> "docbyoffset", offset |-> o.val]>>
                     IN  /\ handle' = handle
                         /\ IF r.ok
                            THEN last' = [op |-> "getitem", docno |-> docno, calls |-> calls,
                                          outcome |-> "return", value |-> r.doc]
                            ELSE last' = [op |-> "getitem", docno |-> docno, calls |-> calls,
                                          outcome |-> r.err]
    /\ UNCHANGED <<disk, ghost>>

(***************************************************************************)
(* IndexedCorpus.__getitem__(docno)                                        *)
(***************************************************************************)
getitem(docno) ==
    /\ handle.open
    /\ IF handle.index = PyNone
       THEN last' = [op |-> "getitem", docno |-> docno, calls |-> <<>>,
                     outcome |-> "RuntimeError"]
       ELSE LET o == ListGetItem(handle.index.items, docno)
            IN  IF ~o.ok
                THEN last' = [op |-> "getitem", docno |-> docno, calls |-> <<>>,
                              outcome |-> o.err]
                ELSE LET r == docbyoffset(disk[handle.fname], o.val)
                         calls == <<[fn |-> "docbyoffset", offset |-> o.val]>>
                     IN  IF r.ok
                         THEN last' = [op |-> "getitem", docno |-> docno, calls |-> calls,
                                       outcome |-> "return", value |-> r.doc]
                         ELSE last' = [op |-> "getitem", docno |-> docno, calls |-> calls,
                                       outcome |-> r.err]
    /\ UNCHANGED <<disk, handle, ghost>>

(***************************************************************************)
(* The environment: an index file is deleted, or damaged, between calls.   *)
(***************************************************************************)
RemoveIndexFile(path) ==
    /\ disk[path].exists
    /\ disk' = [disk EXCEPT ![path] = NoFile]
    /\ last' = [op |-> "remove", path |-> path]
    /\ ghost' = NoGhost
    /\ UNCHANGED handle

DamageIndexFile(path, bytes) ==
    /\ disk[path].exists
    /\ disk' = [disk EXCEPT ![path] = File(bytes)]
    /\ last' = [op |-> "damage", path |-> path]
    /\ ghost' = NoGhost
    /\ UNCHANGED handle

Next ==
    \/ \E fname \in StoragePaths, index_fname \in SameIndexFnameArgs :
          IndexedCorpusInit(fname, index_fname)
    \/ \E serializer \in Serializers, fname \in StoragePaths, corpus \in Corpora,
          index_fname \in SameIndexFnameArgs :
          saveIndexedCorpus(serializer, fname, corpus, index_fname)
    \/ \E docno \in DocNos : getitem(docno)
    \/ \E path \in IndexPaths : RemoveIndexFile(path)
    \/ \E path \in IndexPaths, bytes \in DamagedBytes : DamageIndexFile(path, bytes)

Spec == Init /\ [][Next]_vars

\* saves and constructions with every index path argument
NextPaths ==
    \/ \E fname \in StoragePaths, index_fname \in IndexFnameArgs :
          IndexedCorpusInit(fname, index_fname)
    \/ \E serializer \in Serializers, fname \in StoragePaths, corpus \in Corpora,
          index_fname \in IndexFnameArgs :
          saveIndexedCorpus(serializer, fname, corpus, index_fname)

SpecPaths == Init /\ [][NextPaths]_vars

(***************************************************************************)
(* Properties.                                                             *)
(***************************************************************************)
\* the index path the documentation states: index_fname, or fname.index when not given
StatedIndexPath(fname, index_fname) ==
    IF index_fname = NoIndexFname THEN fname \o ".index" ELSE index_fname

\* the lookup was made on a handle constructed directly after a successful save
\* to the same storage path and the same index path, the disk untouched since
LookupAfterSaveAndLoad ==
    /\ last.op = "getitem"
    /\ ghost.fresh
    /\ handle.fname = ghost.save.fname
    /\ ghost.read = ghost.save.calls[2].path

\* C1: after a successful saveIndexedCorpus(P, D) followed by constructing a
\* handle on P with the same index path, handle[i] for 0 <= i < Len(D) calls
\* docbyoffset with the i-th offset that saveCorpus returned and returns a
\* document equal to D[i].
C1_LookupReturnsSavedDocument ==
    (LookupAfterSaveAndLoad /\ 0 <= last.docno /\ last.docno < Len(ghost.save.corpus))
    => /\ last.calls = <<[fn |-> "docbyoffset",
                          offset |-> ghost.save.offsets.items[last.docno + 1]]>>
       /\ last.outcome = "return"
       /\ last.value = ghost.save.corpus[last.docno + 1]

C1_Witness ==
    /\ LookupAfterSaveAndLoad
    /\ ghost.save.corpus = <<(<<0, 1>>), (<<1>>)>>
    /\ last.docno = 1
    /\ last.outcome = "return"
    /\ last.value = <<1>>

\* C3: on a handle whose index is absent, handle[i] fails with RuntimeError for
\* every i, and docbyoffset is not called.
C3_NoIndexLookupFails ==
    (last.op = "getitem" /\ handle.index = PyNone)
    => (last.outcome = "RuntimeError" /\ last.calls = <<>>)

\* a lookup of document 0 on a handle without index, while a loadable index of
\* two offsets is on disk
C3_Witness ==
    /\ last.op = "getitem"
    /\ handle.index = PyNone
    /\ last.docno = 0
    /\ last.outcome = "RuntimeError"
    /\ unpickle(disk["P.index"]) = [ok |-> TRUE, val |-> PyList(<<0, 2>>)]

\* C4 as stated: on a handle with an index of length n, handle[i] fails with
\* IndexError for every i < 0 and every i >= n, and docbyoffset is not called.
C4_Original ==
    (last.op = "getitem" /\ handle.index # PyNone
        /\ (last.docno < 0 \/ last.docno >= Len(handle.index.items)))
    => (last.outcome = "IndexError" /\ last.calls = <<>>)

\* C4 amended: on a handle with an index of length n, handle[i] fails with
\* IndexError, docbyoffset not called, for every i < -n and every i >= n; for
\* -n <= i < 0 the lookup is the lookup of document n + i.
C4_OutOfRangeLookupFails ==
    (last.op = "getitem" /\ handle.index # PyNone)
    => LET n == Len(handle.index.items)
       IN  /\ (last.docno < 0 - n \/ last.docno >= n)
                => (last.outcome = "IndexError" /\ last.calls = <<>>)
           /\ (0 - n <= last.docno /\ last.docno < 0)
                => last.calls = <<[fn |-> "docbyoffset",
                                   offset |-> handle.index.items[n + last.docno + 1]]>>

\* a lookup just past the end of an index of two offsets
C4_Witness ==
    /\ last.op = "getitem"
    /\ handle.index # PyNone
    /\ Len(handle.index.items) = 2
    /\ last.docno = 2
    /\ last.outcome = "IndexError"

\* the handle was constructed directly after a successful save to the same
\* storage path and the same index path
LoadAfterSave ==
    /\ last.op = "init"
    /\ ghost.fresh
    /\ last.fname = ghost.save.fname
    /\ ghost.read = ghost.save.calls[2].path

\* C2: a successful saveIndexedCorpus followed by a load from the same index
\* path yields an index equal, element by element and in order, to the offsets
\* saveCorpus returned, of length Len(D), whatever the index path held before.
C2_SaveLoadRoundTrip ==
    LoadAfterSave
    => /\ handle.index = ghost.save.offsets
       /\ handle.index.type = "list"
       /\ Len(handle.index.items) = Len(ghost.save.corpus)

\* the save replaced an index file that was there, and two offsets were loaded
C2_Witness ==
    /\ LoadAfterSave
    /\ ghost.save.replaced
    /\ ghost.save.corpus = <<(<<0, 1>>), (<<1>>)>>
    /\ handle.index = PyList(<<0, 3>>)

\* C5 as stated: when saveCorpus returns None, saveIndexedCorpus raises
\* NotImplementedError and no index file is on disk at the index path.
C5_Original ==
    (last.op = "save" /\ last.offsets = PyNone)
    => /\ last.outcome = "NotImplementedError"
       /\ ~disk[StatedIndexPath(last.fname, last.index_fname)].exists

\* C5 amended: when saveCorpus returns None, saveIndexedCorpus raises
\* NotImplementedError and writes no index file: the index path holds after the
\* call what it held before it (no file if there was none).
C5_UnsupportedSaveWritesNoIndex ==
    [][(last'.op = "save" /\ last'.offsets = PyNone)
        => LET path == StatedIndexPath(last'.fname, last'.index_fname)
           IN  /\ last'.outcome = "NotImplementedError"
               /\ disk'[path] = disk[path]]_vars

\* a failing save that left an earlier index file in place
C5_Witness ==
    /\ last.op = "save"
    /\ last.offsets = PyNone
    /\ last.outcome = "NotImplementedError"
    /\ last.replaced
    /\ disk[StatedIndexPath(last.fname, last.index_fname)].exists

\* C6: construction completes normally whatever the index load did; on every
\* failure kind the handle is the same handle without index, and the handle
\* has an index exactly when the load succeeded.
C6_ConstructionAbsorbsLoadFailure ==
    last.op = "init"
    => /\ last.outcome = "return"
       /\ handle.open
       /\ last.load # "ok"
            => handle = [open |-> TRUE, fname |-> last.fname, index |-> PyNone]
       /\ last.load = "ok" <=> handle.index # PyNone

\* construction over a corrupt index file
C6_Witness ==
    /\ last.op = "init"
    /\ last.load = "UnpicklingError"
    /\ last.outcome = "return"
    /\ handle.index = PyNone

\* C7: save and load resolve the index path alike: fname.index when none is
\* given, the given path otherwise.  A load reads exactly that file; a save
\* writes its index exactly there and leaves every other index path alone.
C7_IndexPathResolution ==
    [][/\ last'.op = "init"
            => LET path == StatedIndexPath(last'.fname, last'.index_fname)
                   r == unpickle(disk[path])
               IN  /\ last'.read = path
                   /\ handle'.index = IF r.ok THEN r.val ELSE PyNone
       /\ last'.op = "save"
            => LET path == StatedIndexPath(last'.fname, last'.index_fname)
               IN  /\ \A p \in IndexPaths \ {path} : disk'[p] = disk[p]
                   /\ last'.outcome = "return"
                        => /\ last'.calls[2].path = path
                           /\ disk'[path] = File(PickleBytes(last'.offsets))]_vars

\* a save with the explicit index path X, then a load with the default path,
\* which did not load the offsets just saved
C7_Witness ==
    /\ last.op = "init"
    /\ ghost.fresh
    /\ ghost.save.index_fname = "X"
    /\ last.index_fname = NoIndexFname
    /\ last.read = "P.index"
    /\ handle.index # ghost.save.offsets

\* C8: once constructed, the handle's index never changes: no lookup, save or
\* change of the files moves it between NoIndex and IndexLoaded, and a lookup
\* changes neither the handle nor the disk, so the next lookup sees what this
\* one saw.
C8_HandleIndexFixed ==
    [][(handle.open /\ last'.op # "init")
        => /\ handle' = handle
           /\ last'.op = "getitem" => disk' = disk]_vars

\* a handle that kept its two offsets through the removal of the index file
\* and a failed lookup
C8_Witness ==
    /\ handle.open
    /\ handle.index = PyList(<<0, 2>>)
    /\ ~disk["P.index"].exists
    /\ last.op = "getitem"
    /\ last.outcome = "IndexError"

\* number of documents in a storage file: one terminator per document
RECURSIVE NumStoredDocs(_)
NumStoredDocs(bytes) ==
    IF bytes = <<>> THEN 0
    ELSE (IF Head(bytes) = 0 THEN 1 ELSE 0) + NumStoredDocs(Tail(bytes))

\* C9 as stated: whenever an index can be loaded from P.index, its length is
\* the number of documents stored at P.
C9_Original ==
    LET r == unpickle(disk["P.index"])
    IN  (disk["P"].exists /\ r.ok /\ r.val # PyNone)
        => Len(r.val.items) = NumStoredDocs(disk["P"].bytes)

\* C9 amended: after a saveIndexedCorpus call whose serializer reports offsets
\* the call has succeeded and the index file at its index path has one offset
\* per document stored at P.
C9_IndexMatchesStorageAfterSuccessfulSave ==
    (last.op = "save" /\ last.offsets # PyNone)
    => LET r == unpickle(disk[StatedIndexPath(last.fname, last.index_fname)])
       IN  /\ last.outcome = "return"
           /\ r.ok
           /\ r.val # PyNone
           /\ Len(r.val.items) = NumStoredDocs(disk[last.fname].bytes)
           /\ Len(r.val.items) = Len(last.corpus)

\* a successful save of one document over an earlier index
C9_Witness ==
    /\ last.op = "save"
    /\ last.outcome = "return"
    /\ last.replaced
    /\ Len(last.corpus) = 1
    /\ unpickle(disk["P.index"]) = [ok |-> TRUE, val |-> PyList(<<0>>)]

\* C10: every save calls saveCorpus first and writes the index only after it;
\* the storage file then holds the new corpus, also when the call ends in
\* NotImplementedError, and in that case every index file is left as it was.
C10_FailingSaveEffect ==
    [][last'.op = "save"
        => /\ last'.calls[1] = [fn |-> "saveCorpus", path |-> last'.fname]
           /\ \A k \in 2..Len(last'.calls) : last'.calls[k].fn = "pickle"
           /\ disk'[last'.fname] = File(EncodeCorpus(last'.corpus))
           /\ last'.outcome = "NotImplementedError"
                => \A p \in IndexPaths : disk'[p] = disk[p]]_vars

\* a failing save of one document that left a two-offset index in place
C10_Witness ==
    /\ last.op = "save"
    /\ last.outcome = "NotImplementedError"
    /\ last.corpus = <<(<<1>>)>>
    /\ disk["P"] = File(<<2, 0>>)
    /\ unpickle(disk["P.index"]) = [ok |-> TRUE, val |-> PyList(<<0, 3>>)]

====
